---- MODULE Spec2Model ----
\* Model of models/detectors/pointpillars.py: the loss-weight preparer
\* (prepare_loss_weights), the training branch of PointPillars.forward and the
\* per-sample prediction loop (PointPillars.predict, PointPillars_trt.predict).
EXTENDS Integers, Sequences, FiniteSets, TLC

\* ------------------------------------------------------------------
\* Bounds of the model
\* ------------------------------------------------------------------
MaxCells == 4     \* label tensors have at most MaxCells elements (batch * anchors)
MaxLabel == 1     \* labels range over -1 .. MaxLabel
MaxBoxes == 4     \* a prediction batch holds at most MaxBoxes anchors (batch * anchors)
MaxModules == 4   \* a module tree has at most MaxModules modules
RecursionLimit == 4   \* the interpreter's limit on the depth of nested calls

VARIABLES
  labels,          \* prepare_loss_weights: label tensor [batch][anchor]
  pos_cls_weight,  \* prepare_loss_weights: argument
  neg_cls_weight,  \* prepare_loss_weights: argument
  loss_norm_type,  \* prepare_loss_weights: argument
  lw_pc,           \* prepare_loss_weights: "call", "returned" or "raised"
  lw_ret,          \* prepare_loss_weights: the returned tuple
  cfg,                 \* predict: the detector class and its configuration fields (self._*)
  batch_box_preds,     \* predict: decoded boxes [sample][anchor] (after decode_torch)
  batch_cls_preds,     \* predict: class logits [sample][anchor][channel]
  batch_dir_preds,     \* predict: direction logits [sample][anchor][2], or None per sample
  batch_imgidx,        \* predict: image index per sample
  batch_anchors_mask,  \* predict: anchor mask per sample, or None per sample
  sample_k,            \* predict: position of the per-sample loop (1-based)
  pc,                  \* predict: state of the sample being processed, "returned" or "raised"
  exc,                 \* predict: the exception raised, "none" when none
  loc,                 \* predict: the local variables of the loop body
  predictions_dicts,   \* predict: the results packaged so far
  fw,                  \* forward in training mode: its position, configuration, inputs and locals
  cnv                  \* convert_norm_to_float: the module tree, the call stack and the outcome

lw_vars == <<labels, pos_cls_weight, neg_cls_weight, loss_norm_type, lw_pc, lw_ret>>

in_vars == <<cfg, batch_box_preds, batch_cls_preds, batch_dir_preds, batch_imgidx,
             batch_anchors_mask>>

pr_vars == <<cfg, batch_box_preds, batch_cls_preds, batch_dir_preds, batch_imgidx,
             batch_anchors_mask, sample_k, pc, exc, loc, predictions_dicts>>

vars == <<labels, pos_cls_weight, neg_cls_weight, loss_norm_type, lw_pc, lw_ret,
          cfg, batch_box_preds, batch_cls_preds, batch_dir_preds, batch_imgidx,
          batch_anchors_mask, sample_k, pc, exc, loc, predictions_dicts, fw, cnv>>

\* ------------------------------------------------------------------
\* Exact arithmetic on fractions (tensor elements of the weight tensors)
\* ------------------------------------------------------------------
RECURSIVE Gcd(_, _)
Gcd(a, b) == IF b = 0 THEN a ELSE Gcd(b, a % b)

\* the fraction n/d (d > 0) in lowest terms
Frac(n, d) == LET g == Gcd(IF n < 0 THEN -n ELSE n, d)
              IN  IF g = 0 THEN [num |-> 0, den |-> 1]
                  ELSE [num |-> n \div g, den |-> d \div g]

FracOfInt(n) == [num |-> n, den |-> 1]

\* elementwise true division of a weight by an integer-valued normalizer
FracDiv(f, k) == Frac(f.num, f.den * k)

\* torch.clamp(x, min=lo)
clamp(x, lo) == IF x < lo THEN lo ELSE x

\* tensor.sum over the anchors of one row of a 0/1 mask
RowSum(mask) == Cardinality({i \in DOMAIN mask : mask[i]})

\* ------------------------------------------------------------------
\* prepare_loss_weights
\* ------------------------------------------------------------------
LossNormTypes == {"NormByNumExamples", "NormByNumPositives", "NormByNumPosNeg"}

cared_of_positive(row) == [i \in DOMAIN row |-> row[i] > 0]
cared_of(row) == [i \in DOMAIN row |-> row[i] >= 0]
positives_of(row) == [i \in DOMAIN row |-> row[i] > 0]
negatives_of(row) == [i \in DOMAIN row |-> row[i] = 0]

Ind(b) == IF b THEN 1 ELSE 0

\* cls_weights before normalization, one anchor
base_cls_weight(label, pos_w, neg_w) == neg_w + pos_w * Ind(label > 0)

\* reg_weights before normalization, one anchor
base_reg_weight_cared(label) == Ind(label >= 0)
base_reg_weight(label) == Ind(label > 0)

\* num_examples of a row (NormByNumExamples), clamped
num_examples_positives(row) == clamp(RowSum(positives_of(row)), 1)
num_examples(row) == clamp(RowSum(cared_of(row)), 1)

\* clamped count of positives of a row (bbox_normalizer / pos_normalizer / normalizer[:, 0:1, 0])
bbox_normalizer(row) == clamp(RowSum(positives_of(row)), 1)

\* cls_normalizer of anchor i of a row (NormByNumPosNeg), clamped
cls_normalizer_pos_only(row, i) ==
  clamp(Ind(positives_of(row)[i]) * RowSum(positives_of(row)), 1)
cls_normalizer(row, i) ==
  clamp(Ind(positives_of(row)[i]) * RowSum(positives_of(row))
        + Ind(negatives_of(row)[i]) * RowSum(negatives_of(row)), 1)

\* the normalizer cls_weights of anchor i is divided by, per policy
cls_divisor(row, i, norm_type) ==
  CASE norm_type = "NormByNumExamples" -> num_examples(row)
    [] norm_type = "NormByNumPositives" -> bbox_normalizer(row)
    [] norm_type = "NormByNumPosNeg" -> cls_normalizer(row, i)

\* the value prepare_loss_weights returns, or the error it raises: the message of
\* the ValueError is an f-string over list(LossNormType), a name the module
\* neither defines nor imports, so building the message raises NameError
prepare_loss_weights(lbls, pos_w, neg_w, norm_type) ==
  IF norm_type \notin LossNormTypes
  THEN [raised |-> "NameError"]
  ELSE [raised |-> "none",
        cls_weights |-> [b \in DOMAIN lbls |-> [i \in DOMAIN lbls[b] |->
            FracDiv(FracOfInt(base_cls_weight(lbls[b][i], pos_w, neg_w)),
                    cls_divisor(lbls[b], i, norm_type))]],
        reg_weights |-> [b \in DOMAIN lbls |-> [i \in DOMAIN lbls[b] |->
            FracDiv(FracOfInt(base_reg_weight(lbls[b][i])), bbox_normalizer(lbls[b]))]],
        cared |-> [b \in DOMAIN lbls |-> cared_of(lbls[b])]]

LabelValues == (-1) .. MaxLabel
WeightValues == {1, 2}
NormTypeInputs == LossNormTypes \cup {"NormByNothing"}

LabelShapes == {bm \in (1 .. MaxCells) \X (1 .. MaxCells) : bm[1] * bm[2] <= MaxCells}

LabelTensors == UNION {[1 .. bm[1] -> [1 .. bm[2] -> LabelValues]] : bm \in LabelShapes}

NoRet == [raised |-> "pending"]

\* convert_norm_to_float is not running
IdleConvert ==
  [pc |-> "idle", parent |-> <<>>, is_bn |-> <<>>, is_float |-> <<>>, stack |-> <<>>,
   visited |-> {}, ret |-> <<>>, exc |-> "none"]

\* forward is not running
IdleForward ==
  [pc |-> "idle", use_direction_classifier |-> FALSE, loc_loss_weight |-> 0,
   cls_loss_weight |-> 0, direction_loss_weight |-> 0,
   raw_loc |-> <<>>, raw_cls |-> <<>>, raw_dir |-> <<>>, reg_target_yaw |-> <<>>,
   loc_loss |-> <<>>, cls_loss |-> <<>>, loc_loss_reduced |-> <<>>,
   cls_loss_reduced |-> <<>>, cls_pos_loss |-> <<>>, cls_neg_loss |-> <<>>,
   loss |-> <<>>, dir_targets |-> <<>>, dir_loss |-> <<>>, ret |-> <<>>, exc |-> "none"]

\* predict is not running
IdlePredict ==
  /\ cfg = [detector |-> "none"]
  /\ batch_box_preds = <<>>
  /\ batch_cls_preds = <<>>
  /\ batch_dir_preds = <<>>
  /\ batch_imgidx = <<>>
  /\ batch_anchors_mask = <<>>
  /\ sample_k = 0
  /\ pc = "idle"
  /\ exc = "none"
  /\ loc = <<>>
  /\ predictions_dicts = <<>>

InitLoss ==
  /\ labels \in LabelTensors
  /\ pos_cls_weight \in WeightValues
  /\ neg_cls_weight \in WeightValues
  /\ loss_norm_type \in NormTypeInputs
  /\ lw_pc = "call"
  /\ lw_ret = NoRet
  /\ IdlePredict
  /\ fw = IdleForward
  /\ cnv = IdleConvert

LossCall(norm_type) ==
  /\ lw_pc = "call"
  /\ loss_norm_type = norm_type
  /\ lw_ret' = prepare_loss_weights(labels, pos_cls_weight, neg_cls_weight, loss_norm_type)
  /\ lw_pc' = "returned"
  /\ UNCHANGED <<labels, pos_cls_weight, neg_cls_weight, loss_norm_type, pr_vars, fw, cnv>>

NormByNumExamples == LossCall("NormByNumExamples")
NormByNumPositives == LossCall("NormByNumPositives")
NormByNumPosNeg == LossCall("NormByNumPosNeg")

UnknownLossNorm ==
  /\ lw_pc = "call"
  /\ loss_norm_type \notin LossNormTypes
  /\ lw_ret' = prepare_loss_weights(labels, pos_cls_weight, neg_cls_weight, loss_norm_type)
  /\ lw_pc' = "raised"
  /\ UNCHANGED <<labels, pos_cls_weight, neg_cls_weight, loss_norm_type, pr_vars, fw, cnv>>

NextLoss ==
  \/ NormByNumExamples
  \/ NormByNumPositives
  \/ NormByNumPosNeg
  \/ UnknownLossNorm

SpecLoss == InitLoss /\ [][NextLoss]_vars

\* ------------------------------------------------------------------
\* Values shared by the prediction model
\* ------------------------------------------------------------------
\* Python's None and a present value, as sequences of length 0 and 1
None == <<>>
Some(v) == <<v>>
IsNone(o) == Len(o) = 0
Val(o) == o[1]

Max2(a, b) == IF a > b THEN a ELSE b
Min2(a, b) == IF a < b THEN a ELSE b

\* tensor[index tensor]: the rows at the given positions, in the given order
SelectRows(t, idx) == [j \in 1 .. Len(idx) |-> t[idx[j]]]

\* positions at which a boolean mask is true, increasing
IdxWhere(mask) ==
  LET F[i \in 0 .. Len(mask)] ==
        IF i = 0 THEN <<>>
        ELSE IF mask[i] THEN Append(F[i - 1], i) ELSE F[i - 1]
  IN  F[Len(mask)]

\* tensor[boolean mask]
MaskRows(t, mask) == SelectRows(t, IdxWhere(mask))

\* A yaw angle is mrad/1000 + pi * (the number pi) radians; decoded boxes have pi = 0.
Yaw(m, p) == [mrad |-> m, pi |-> p]

\* yaw > 0, exact for |mrad| < 10^5 (3141592 < 10^6 * pi < 3141593)
YawGtZero(y) ==
  IF y.pi = 0 THEN y.mrad > 0 ELSE y.mrad * 1000 + y.pi * 3141593 > 0

\* cos and sin of a decoded yaw, in thousandths
CosMilli(m) ==
  CASE m = 0 -> 1000
    [] m \in {100, -100} -> 995
    [] m \in {3141, -3141, 3142, -3142} -> -1000
    [] m \in {3500, -3500} -> -936
SinOfAbsMilli(m) ==
  CASE m \in {0, 3142, -3142} -> 0
    [] m \in {100, -100} -> 100
    [] m \in {3141, -3141} -> 1
    [] m \in {3500, -3500} -> -351
SinMilli(m) ==
  IF m \in {3142, -3142} THEN 0 ELSE IF m < 0 THEN 0 - SinOfAbsMilli(m) ELSE SinOfAbsMilli(m)

\* ------------------------------------------------------------------
\* Geometry kernels and NMS engine (libs.ops.box_torch_ops)
\* ------------------------------------------------------------------
\* box_preds[:, [0, 1, 3, 4, 6]]: the BEV box (x, y, w, l, yaw) of a 7-value box
bev_of(box) == <<box[1], box[2], box[4], box[5], box[7]>>

\* center_to_corner_box2d: the four corners of one BEV box, rotated by its yaw
center_to_corner_box2d(bev) ==
  LET c == CosMilli(bev[5].mrad)
      s == SinMilli(bev[5].mrad)
      unit == <<(<<-1, -1>>), (<<-1, 1>>), (<<1, 1>>), (<<1, -1>>)>>
      cx(u) == (u[1] * bev[3] * c - u[2] * bev[4] * s) \div 2000
      cy(u) == (u[1] * bev[3] * s + u[2] * bev[4] * c) \div 2000
  IN  [n \in 1 .. 4 |-> <<bev[1] + cx(unit[n]), bev[2] + cy(unit[n])>>]

SetMin(S) == CHOOSE x \in S : \A y \in S : x <= y
SetMax(S) == CHOOSE x \in S : \A y \in S : x >= y

\* corner_to_standup_nd: (min-x, min-y, max-x, max-y) of one corner set
corner_to_standup_nd(corners) ==
  <<SetMin({corners[n][1] : n \in 1 .. 4}), SetMin({corners[n][2] : n \in 1 .. 4}),
    SetMax({corners[n][1] : n \in 1 .. 4}), SetMax({corners[n][2] : n \in 1 .. 4})>>

standup_of(box) == corner_to_standup_nd(center_to_corner_box2d(bev_of(box)))

\* intersection area and union area of two rows read as (x1, y1, x2, y2, ...)
InterArea(a, b) ==
  Max2(0, Min2(a[3], b[3]) - Max2(a[1], b[1])) * Max2(0, Min2(a[4], b[4]) - Max2(a[2], b[2]))
UnionArea(a, b) ==
  (a[3] - a[1]) * (a[4] - a[2]) + (b[3] - b[1]) * (b[4] - b[2]) - InterArea(a, b)

\* box_torch_ops.nms: IoU(a, b) > iou_threshold (percent) on (x1, y1, x2, y2) rows
aligned_overlaps_inclusive(a, b, iou_threshold) ==
  InterArea(a, b) * 100 >= iou_threshold * UnionArea(a, b)
aligned_overlaps(a, b, iou_threshold) ==
  InterArea(a, b) * 100 > iou_threshold * UnionArea(a, b)

\* (x1, y1, x2, y2) of a BEV row (x, y, w, l, yaw) in its own frame
frame_of(bev) ==
  <<bev[1] - bev[3] \div 2, bev[2] - bev[4] \div 2, bev[1] + bev[3] \div 2, bev[2] + bev[4] \div 2>>

\* box_torch_ops.rotate_nms: IoU of two BEV rows (x, y, w, l, yaw) > iou_threshold.
\* The overlap is evaluated in the boxes' own frame; the boxes of the model are
\* squares that either share their centre or lie apart by more than a diagonal.
rotated_overlaps(a, b, iou_threshold) ==
  aligned_overlaps(frame_of(a), frame_of(b), iou_threshold)

overlaps(nms_func, a, b, iou_threshold) ==
  IF nms_func = "rotate_nms" THEN rotated_overlaps(a, b, iou_threshold)
  ELSE aligned_overlaps(a, b, iou_threshold)

\* positions 1..Len(scores) by descending score, equal scores by increasing position
RECURSIVE SortDesc(_, _)
SortDesc(scores, left) ==
  IF left = {} THEN <<>>
  ELSE LET top == CHOOSE i \in left :
                    \A j \in left : scores[i] > scores[j] \/ (scores[i] = scores[j] /\ i <= j)
       IN  <<top>> \o SortDesc(scores, left \ {top})

Take(s, n) == IF n <= 0 \/ n >= Len(s) THEN s ELSE SubSeq(s, 1, n)

\* greedy suppression over candidate positions in score order
RECURSIVE Greedy(_, _, _, _)
Greedy(nms_func, boxes, cand, iou_threshold) ==
  IF cand = <<>> THEN <<>>
  ELSE LET h == cand[1]
           rest == SelectSeq(Tail(cand),
                     LAMBDA c : ~overlaps(nms_func, boxes[h], boxes[c], iou_threshold))
       IN  <<h>> \o Greedy(nms_func, boxes, rest, iou_threshold)

\* nms_func(boxes, scores, pre_max_size, post_max_size, iou_threshold): the kept
\* positions, or None when nothing is kept
nms(nms_func, boxes, scores, pre_max_size, post_max_size, iou_threshold) ==
  LET order == Take(SortDesc(scores, DOMAIN scores), pre_max_size)
      keep == Take(Greedy(nms_func, boxes, order, iou_threshold), post_max_size)
  IN  IF Len(keep) = 0 THEN None ELSE Some(keep)

\* multiclass_nms: per class, the positions per-class NMS keeps among the anchors
\* whose class score passes score_thresh, or None
multiclass_nms(nms_func, boxes, scores, num_class, pre_max_size, post_max_size, iou_threshold, score_thresh) ==
  [i \in 1 .. num_class |->
     LET class_scores == [a \in DOMAIN scores |-> scores[a][i]]
         keep_idx == IF score_thresh > 0
                     THEN IdxWhere([a \in DOMAIN scores |-> class_scores[a] >= score_thresh])
                     ELSE [a \in DOMAIN scores |-> a]
         kept == IF Len(keep_idx) = 0 THEN None
                 ELSE nms(nms_func, SelectRows(boxes, keep_idx),
                          SelectRows(class_scores, keep_idx),
                          pre_max_size, post_max_size, iou_threshold)
     IN  IF IsNone(kept) THEN None ELSE Some(SelectRows(keep_idx, Val(kept)))]

\* ------------------------------------------------------------------
\* predict: scoring (RAW_LOGITS -> SCORED)
\* ------------------------------------------------------------------
\* torch.sigmoid of a logit, in percent
sigmoid(x) == CASE x = -1 -> 27 [] x = 0 -> 50 [] x = 1 -> 73

\* exp of a logit, in thousandths
ExpMilli(x) == CASE x = -1 -> 368 [] x = 0 -> 1000 [] x = 1 -> 2718

RECURSIVE SeqSum(_)
SeqSum(s) == IF s = <<>> THEN 0 ELSE s[1] + SeqSum(Tail(s))

\* F.softmax of one row of logits, in percent
softmax(row) ==
  LET e == [c \in DOMAIN row |-> ExpMilli(row[c])]
  IN  [c \in DOMAIN row |-> (100 * e[c]) \div SeqSum(e)]

num_class_with_bg(c) ==
  IF c.encode_background_as_zeros THEN c.num_class ELSE c.num_class + 1

\* total_scores of one anchor row of cls_preds
total_scores_of(c, row) ==
  IF c.encode_background_as_zeros THEN [n \in DOMAIN row |-> sigmoid(row[n])]
  ELSE IF c.use_sigmoid_score THEN Tail([n \in DOMAIN row |-> sigmoid(row[n])])
  ELSE Tail(softmax(row))

\* torch.max(row, dim=-1): the maximum and the 0-based position of its first occurrence
RowMax(row) == SetMax({row[n] : n \in DOMAIN row})
RowArgMax(row) == SetMin({n \in DOMAIN row : row[n] = RowMax(row)}) - 1

\* The locals of the loop body before the first sample. box_rows and
\* selected_rows are the rows of the sample's batch tensors that the rows of
\* box_preds and selected_boxes were taken from; box_storage and selected_storage
\* tell whether the tensor is a view of the batch tensor ("batch") or has its own
\* storage ("own").
EmptyLoc ==
  [box_preds |-> <<>>, total_scores |-> <<>>, dir_labels |-> None, img_idx |-> -1,
   selected_boxes |-> None, selected_labels |-> None, selected_scores |-> None,
   selected_dir_labels |-> None, scores |-> None, label_preds |-> None,
   top_scores_keep |-> None, selected |-> None, boxes_for_nms |-> None,
   box_rows |-> <<>>, box_storage |-> "none",
   selected_rows |-> <<>>, selected_storage |-> "none"]

\* tensor[boolean mask] and tensor[index tensor] are advanced indexing: the
\* result has storage of its own, whatever the storage of the indexed tensor
indexed_storage_view(storage) == storage
indexed_storage(storage) == "own"

BatchSize == Len(batch_box_preds)

\* if a_mask is not None: t = t[a_mask]
masked_never(t, a_mask) == t
masked(t, a_mask) == IF IsNone(a_mask) THEN t ELSE MaskRows(t, Val(a_mask))

\* the loop body up to the scoring, for the sample at position b, entered with
\* the locals l the previous sample left: the targets of the for statement,
\* the mask and dir_labels
bound_loc(l, b) ==
  LET a_mask == batch_anchors_mask[b]
      dir_preds == IF ~cfg.use_direction_classifier THEN <<>>
                   ELSE masked(Val(batch_dir_preds[b]), a_mask)
  IN  [l EXCEPT
         !.box_preds = masked(batch_box_preds[b], a_mask),
         !.box_rows = masked([a \in DOMAIN batch_box_preds[b] |-> a], a_mask),
         !.box_storage = IF IsNone(a_mask) THEN "batch" ELSE indexed_storage("batch"),
         !.dir_labels = IF cfg.use_direction_classifier
                        THEN Some([a \in DOMAIN dir_preds |-> RowArgMax(dir_preds[a])])
                        ELSE l.dir_labels,
         !.img_idx = batch_imgidx[b]]

\* the loop body up to total_scores and the reset of selected_*, for the sample
\* at position b, entered with the locals l the previous sample left
scored_loc(l, b) ==
  LET cls_preds == masked(batch_cls_preds[b], batch_anchors_mask[b])
  IN  [bound_loc(l, b) EXCEPT
         !.total_scores = [a \in DOMAIN cls_preds |-> total_scores_of(cfg, cls_preds[a])],
         !.selected_boxes = None, !.selected_labels = None,
         !.selected_scores = None, !.selected_dir_labels = None,
         !.selected_rows = <<>>, !.selected_storage = "none"]

\* the same for a sample that is the first of its batch
ScoredLoc(b) == scored_loc(EmptyLoc, b)

\* assert self._use_sigmoid_score is True
SigmoidAssertionSkipped(c) == TRUE
SigmoidAssertionHolds(c) == c.encode_background_as_zeros => c.use_sigmoid_score

Score ==
  /\ pc = "RAW_LOGITS"
  /\ sample_k <= BatchSize
  /\ SigmoidAssertionHolds(cfg)
  /\ loc' = scored_loc(loc, sample_k)
  /\ pc' = "SCORED"
  /\ UNCHANGED <<in_vars, sample_k, exc, predictions_dicts, lw_vars, fw, cnv>>

\* the assert fails with the locals bound before it
ScoreAssertFails ==
  /\ pc = "RAW_LOGITS"
  /\ sample_k <= BatchSize
  /\ ~SigmoidAssertionHolds(cfg)
  /\ loc' = bound_loc(loc, sample_k)
  /\ pc' = "raised"
  /\ exc' = "AssertionError"
  /\ UNCHANGED <<in_vars, sample_k, predictions_dicts, lw_vars, fw, cnv>>

\* ------------------------------------------------------------------
\* predict: NMS (SCORED -> NMS_FILTERED)
\* ------------------------------------------------------------------
nms_func_of(c) == IF c.use_rotate_nms THEN "rotate_nms" ELSE "nms"

\* the rows handed to nms_func in the single-class path
boxes_for_nms(c, boxes) ==
  IF c.use_rotate_nms THEN [a \in DOMAIN boxes |-> bev_of(boxes[a])]
  ELSE [a \in DOMAIN boxes |-> standup_of(boxes[a])]

\* the rows handed to multiclass_nms: PointPillars.predict assigns the standup
\* boxes to box_for_nms and passes boxes_for_nms, PointPillars_trt.predict
\* reassigns boxes_for_nms
boxes_for_mcnms(c, boxes) ==
  IF c.use_rotate_nms \/ c.detector = "PointPillars"
  THEN [a \in DOMAIN boxes |-> bev_of(boxes[a])]
  ELSE [a \in DOMAIN boxes |-> standup_of(boxes[a])]

selected_per_class_of(c, l) ==
  multiclass_nms(nms_func_of(c), boxes_for_mcnms(c, l.box_preds), l.total_scores,
                 c.num_class, c.nms_pre_max_size, c.nms_post_max_size,
                 c.nms_iou_threshold, c.nms_score_threshold)

RECURSIVE Concat(_)
Concat(ss) == IF ss = <<>> THEN <<>> ELSE ss[1] \o Concat(Tail(ss))

\* the classes (1-based positions) whose per-class NMS returned indices
ClassesWithSelection(spc) == IdxWhere([i \in DOMAIN spc |-> ~IsNone(spc[i])])

\* PointPillars.predict, multiclass branch: the first class with a selection
\* reaches torch.cat(selected_scores) on an empty list; with no such class the
\* for-else sets every selected_* to None
multiclass_raises(c, spc) ==
  c.detector = "PointPillars" /\ ClassesWithSelection(spc) # <<>>

\* PointPillars_trt.predict, multiclass branch: the lists filled per class and
\* concatenated, or None when no class has a selection; without the direction
\* classifier selected_dir_labels stays the empty list it was bound to
multiclass_selected(c, l, spc) ==
  LET cls == ClassesWithSelection(spc)
      per(f(_)) == Concat([n \in 1 .. Len(cls) |-> f(cls[n])])
      boxes_of(i) == SelectRows(l.box_preds, Val(spc[i]))
      labels_of(i) == [j \in 1 .. Len(Val(spc[i])) |-> i - 1]
      scores_of(i) == [j \in 1 .. Len(Val(spc[i])) |-> l.total_scores[Val(spc[i])[j]][i]]
      dirs_of(i) == SelectRows(Val(l.dir_labels), Val(spc[i]))
      rows_of(i) == SelectRows(l.box_rows, Val(spc[i]))
  IN  IF c.detector = "PointPillars" \/ cls = <<>>
      THEN [l EXCEPT !.selected = None,
                     !.boxes_for_nms = Some(boxes_for_mcnms(c, l.box_preds))]
      ELSE [l EXCEPT
        !.selected = spc[Len(spc)],
        !.boxes_for_nms = Some(boxes_for_mcnms(c, l.box_preds)),
        !.selected_rows = per(rows_of),
        !.selected_storage = "own",
        !.selected_boxes = Some(per(boxes_of)),
        !.selected_labels = Some(per(labels_of)),
        !.selected_scores = Some(per(scores_of)),
        !.selected_dir_labels =
           IF c.use_direction_classifier THEN Some(per(dirs_of)) ELSE Some(<<>>)]

MulticlassNms ==
  /\ pc = "SCORED"
  /\ cfg.multiclass_nms
  /\ ~multiclass_raises(cfg, selected_per_class_of(cfg, loc))
  /\ loc' = multiclass_selected(cfg, loc, selected_per_class_of(cfg, loc))
  /\ pc' = "NMS_FILTERED"
  /\ UNCHANGED <<in_vars, sample_k, exc, predictions_dicts, lw_vars, fw, cnv>>

\* PointPillars.predict, multiclass branch, at the raise: the first class with
\* a selection has its boxes and labels appended and concatenated, while
\* selected_scores and selected_dir_labels are the empty lists they were bound to
multiclass_raised(c, l, spc) ==
  LET i == ClassesWithSelection(spc)[1]
      selected == Val(spc[i])
  IN  [l EXCEPT
        !.selected = spc[i],
        !.boxes_for_nms = Some(boxes_for_mcnms(c, l.box_preds)),
        !.selected_rows = SelectRows(l.box_rows, selected),
        !.selected_storage = "own",
        !.selected_boxes = Some(SelectRows(l.box_preds, selected)),
        !.selected_labels = Some([j \in 1 .. Len(selected) |-> i - 1]),
        !.selected_scores = Some(<<>>),
        !.selected_dir_labels = Some(<<>>)]

MulticlassNmsRaises ==
  /\ pc = "SCORED"
  /\ cfg.multiclass_nms
  /\ multiclass_raises(cfg, selected_per_class_of(cfg, loc))
  /\ loc' = multiclass_raised(cfg, loc, selected_per_class_of(cfg, loc))
  /\ pc' = "raised"
  /\ exc' = "RuntimeError"
  /\ UNCHANGED <<in_vars, sample_k, predictions_dicts, lw_vars, fw, cnv>>

\* the single-class branch: top score and label per anchor, score threshold,
\* NMS, and the selected rows
single_class_keep_strict(c, top_scores) ==
  [a \in DOMAIN top_scores |->
     c.nms_score_threshold > 0 => top_scores[a] > c.nms_score_threshold]
single_class_keep(c, top_scores) ==
  [a \in DOMAIN top_scores |->
     c.nms_score_threshold > 0 => top_scores[a] >= c.nms_score_threshold]

single_class_selected(c, l) ==
  LET top_scores0 == IF num_class_with_bg(c) = 1
                     THEN [a \in DOMAIN l.total_scores |-> l.total_scores[a][1]]
                     ELSE [a \in DOMAIN l.total_scores |-> RowMax(l.total_scores[a])]
      top_labels0 == IF num_class_with_bg(c) = 1
                     THEN [a \in DOMAIN l.total_scores |-> 0]
                     ELSE [a \in DOMAIN l.total_scores |-> RowArgMax(l.total_scores[a])]
      top_scores_keep == single_class_keep(c, top_scores0)
      top_scores == MaskRows(top_scores0, top_scores_keep)
      box_preds == MaskRows(l.box_preds, top_scores_keep)
      box_rows == MaskRows(l.box_rows, top_scores_keep)
      box_storage == IF c.nms_score_threshold > 0 THEN indexed_storage(l.box_storage)
                     ELSE l.box_storage
      top_labels == MaskRows(top_labels0, top_scores_keep)
      selected == IF Len(top_scores) # 0
                  THEN nms(nms_func_of(c), boxes_for_nms(c, box_preds), top_scores,
                           c.nms_pre_max_size, c.nms_post_max_size, c.nms_iou_threshold)
                  ELSE None
      kept == [l EXCEPT !.top_scores_keep = IF c.nms_score_threshold > 0
                                            THEN Some(top_scores_keep) ELSE @,
                        !.selected = selected,
                        !.boxes_for_nms = IF Len(top_scores) # 0
                                          THEN Some(boxes_for_nms(c, box_preds)) ELSE @]
  IN  IF IsNone(selected) THEN kept
      ELSE [kept EXCEPT
        !.box_preds = box_preds,
        !.box_rows = box_rows,
        !.box_storage = box_storage,
        !.selected_rows = SelectRows(box_rows, Val(selected)),
        !.selected_storage = indexed_storage(box_storage),
        !.dir_labels = IF c.use_direction_classifier
                       THEN Some(MaskRows(Val(l.dir_labels), top_scores_keep))
                       ELSE l.dir_labels,
        !.selected_boxes = Some(SelectRows(box_preds, Val(selected))),
        !.selected_dir_labels =
           IF c.use_direction_classifier
           THEN Some(SelectRows(MaskRows(Val(l.dir_labels), top_scores_keep), Val(selected)))
           ELSE None,
        !.selected_labels = Some(SelectRows(top_labels, Val(selected))),
        !.selected_scores = Some(SelectRows(top_scores, Val(selected)))]

SingleClassNms ==
  /\ pc = "SCORED"
  /\ ~cfg.multiclass_nms
  /\ loc' = single_class_selected(cfg, loc)
  /\ pc' = "NMS_FILTERED"
  /\ UNCHANGED <<in_vars, sample_k, exc, predictions_dicts, lw_vars, fw, cnv>>

\* ------------------------------------------------------------------
\* predict: direction resolution (NMS_FILTERED -> DIRECTION_RESOLVED)
\* ------------------------------------------------------------------
\* opp_labels of one detection: (yaw > 0) ^ (dir_label != 0)
opp_label_when_dir_set(box, dir_label) == dir_label # 0
opp_label(box, dir_label) == YawGtZero(box[7]) # (dir_label # 0)

\* box_preds[..., -1] += where(opp_labels, pi, 0), one detection
resolve_direction_always(box, dir_label) == [box EXCEPT ![7].pi = @ + 1]
resolve_direction(box, dir_label) ==
  IF opp_label(box, dir_label) THEN [box EXCEPT ![7].pi = @ + 1] ELSE box

\* get_direction_target: the direction class of a training target, (rot_gt > 0).long()
\* with rot_gt = regression yaw target + anchor yaw, one-hot when asked
dir_cls_target(rot_gt) == Ind(YawGtZero(rot_gt))
get_direction_target(anchor_yaw, reg_target_yaw, one_hot) ==
  LET rot_gt == Yaw(reg_target_yaw.mrad + anchor_yaw.mrad, reg_target_yaw.pi + anchor_yaw.pi)
  IN  IF one_hot THEN [n \in 1 .. 2 |-> Ind(n - 1 = dir_cls_target(rot_gt))]
      ELSE dir_cls_target(rot_gt)

\* the block under "finally generate predictions" up to final_box_preds;
\* box_preds and selected_boxes name the same tensor
resolved_loc(c, l) ==
  IF IsNone(l.selected_boxes) THEN l
  ELSE LET boxes == IF c.use_direction_classifier
                    THEN [j \in DOMAIN Val(l.selected_boxes) |->
                            resolve_direction(Val(l.selected_boxes)[j],
                                              Val(l.selected_dir_labels)[j])]
                    ELSE Val(l.selected_boxes)
       IN  [l EXCEPT
             !.box_preds = boxes,
             !.box_rows = l.selected_rows,
             !.box_storage = l.selected_storage,
             !.selected_boxes = Some(boxes),
             !.scores = l.selected_scores,
             !.label_preds = l.selected_labels,
             !.dir_labels = IF c.use_direction_classifier THEN l.selected_dir_labels
                            ELSE l.dir_labels]

\* box_preds[..., -1] += ... writes in place: the rows of the sample's batch
\* tensor after the write, which reaches them when box_preds is a view of it
written_rows(c, l, batch_rows) ==
  IF IsNone(l.selected_boxes) \/ ~c.use_direction_classifier \/ l.selected_storage # "batch"
  THEN batch_rows
  ELSE [a \in DOMAIN batch_rows |->
          IF \E j \in DOMAIN l.selected_rows : l.selected_rows[j] = a
          THEN LET j == CHOOSE j \in DOMAIN l.selected_rows : l.selected_rows[j] = a
               IN  resolve_direction(Val(l.selected_boxes)[j], Val(l.selected_dir_labels)[j])
          ELSE batch_rows[a]]

ResolveDirection ==
  /\ pc = "NMS_FILTERED"
  /\ loc' = resolved_loc(cfg, loc)
  /\ batch_box_preds' = [batch_box_preds EXCEPT
                           ![sample_k] = written_rows(cfg, loc, batch_box_preds[sample_k])]
  /\ pc' = "DIRECTION_RESOLVED"
  /\ UNCHANGED <<cfg, batch_cls_preds, batch_dir_preds, batch_imgidx, batch_anchors_mask,
                 sample_k, exc, predictions_dicts, lw_vars, fw, cnv>>

\* ------------------------------------------------------------------
\* predict: packaging (DIRECTION_RESOLVED -> FINAL) and the loop step
\* ------------------------------------------------------------------
\* The result of one sample. PointPillars: the dict. PointPillars_trt: the
\* tuple, each element as None or Some(value).
empty_result(c, l) ==
  IF c.detector = "PointPillars"
  THEN [bbox |-> None, box3d_camera |-> None, box3d_lidar |-> None,
        scores |-> None, label_preds |-> None, image_idx |-> l.img_idx]
  ELSE <<None, None, None, None, None, Some(l.img_idx)>>

predictions_dict_of(c, l) ==
  IF IsNone(l.selected_boxes) THEN empty_result(c, l)
  ELSE IF c.detector = "PointPillars"
  THEN [bbox |-> None, box3d_camera |-> None, box3d_lidar |-> Some(l.box_preds),
        scores |-> l.scores, label_preds |-> l.label_preds, image_idx |-> l.img_idx]
  ELSE <<Some(l.box_preds), l.scores, l.label_preds, Some(l.img_idx)>>

Package ==
  /\ pc = "DIRECTION_RESOLVED"
  /\ predictions_dicts' = Append(predictions_dicts, predictions_dict_of(cfg, loc))
  /\ sample_k' = sample_k + 1
  /\ pc' = IF sample_k + 1 <= BatchSize THEN "RAW_LOGITS" ELSE "returned"
  /\ UNCHANGED <<in_vars, exc, loc, lw_vars, fw, cnv>>

\* ------------------------------------------------------------------
\* Inputs of predict
\* ------------------------------------------------------------------
Detectors == {"PointPillars", "PointPillars_trt"}

Config(det, nc, bg, sig, mc, rot, dir, thr) ==
  [detector |-> det, num_class |-> nc, encode_background_as_zeros |-> bg,
   use_sigmoid_score |-> sig, multiclass_nms |-> mc, use_rotate_nms |-> rot,
   use_direction_classifier |-> dir, nms_score_threshold |-> thr,
   nms_pre_max_size |-> 3, nms_post_max_size |-> 2, nms_iou_threshold |-> 50]

\* decoded boxes: squares of side 200 whose first two anchors share a centre and
\* whose later anchors lie 500 apart
XOf(i) == IF i <= 2 THEN 0 ELSE 500 * (i - 2)
BoxAt(i, m) == <<XOf(i), 0, 0, 200, 200, 150, Yaw(m, 0)>>

DirLogits(label) == IF label = 1 THEN <<0, 1>> ELSE <<1, 0>>

Shapes(det) ==
  {bn \in (1 .. MaxBoxes) \X (1 .. MaxBoxes) :
     bn[1] * bn[2] <= MaxBoxes /\ (det = "PointPillars_trt" => bn[1] = 1)}

StartPredict ==
  /\ sample_k = 1
  /\ pc = "RAW_LOGITS"
  /\ exc = "none"
  /\ loc = EmptyLoc
  /\ predictions_dicts = <<>>
  /\ batch_imgidx = [b \in 1 .. BatchSize |-> 100 + b]

IdleLoss ==
  /\ labels = <<>>
  /\ pos_cls_weight = 1
  /\ neg_cls_weight = 1
  /\ loss_norm_type = "NormByNumPositives"
  /\ lw_pc = "idle"
  /\ lw_ret = NoRet

\* every flag combination on two classes with sigmoid scores; the class logits
\* of the first three anchors of the batch free, of the later anchors opposite
\* on the two classes; yaw and direction class patterned over the anchors
InitFlow ==
  \E det \in Detectors, mc \in BOOLEAN, rot \in BOOLEAN, dir \in BOOLEAN, thr \in {0, 50} :
  \E bn \in Shapes(det) :
    /\ cfg = Config(det, 2, TRUE, TRUE, mc, rot, dir, thr)
    /\ batch_box_preds = [b \in 1 .. bn[1] |-> [i \in 1 .. bn[2] |->
                            BoxAt(i, IF i % 2 = 1 THEN 100 ELSE -100)]]
    /\ batch_cls_preds \in
         {t \in [1 .. bn[1] -> [1 .. bn[2] -> [1 .. 2 -> {-1, 1}]]] :
            \A b \in 1 .. bn[1], i \in 1 .. bn[2] :
              (b - 1) * bn[2] + i > 3 => t[b][i][2] = 0 - t[b][i][1]}
    /\ batch_dir_preds = [b \in 1 .. bn[1] |->
                            IF dir THEN Some([i \in 1 .. bn[2] |->
                                               DirLogits((i \div 2 + b) % 2)])
                            ELSE None]
    /\ batch_anchors_mask \in
         {[b \in 1 .. bn[1] |-> None]} \cup
         (IF det = "PointPillars"
          THEN {[b \in 1 .. bn[1] |-> Some([i \in 1 .. bn[2] |-> i # b])]}
          ELSE {})

WideYaws == {-3500, -3142, -3141, -100, 0, 100, 3141, 3142, 3500}

\* one sample of one or two anchors whose yaw and direction class are free
InitDirection ==
  \E det \in Detectors, mc \in BOOLEAN, rot \in BOOLEAN, thr \in {0, 50}, n \in {1, 2} :
    /\ cfg = Config(det, 1, TRUE, TRUE, mc, rot, TRUE, thr)
    /\ \E yaws \in [1 .. n -> WideYaws] :
         batch_box_preds = <<[i \in 1 .. n |-> BoxAt(i + 1, yaws[i])]>>
    /\ batch_cls_preds = <<[i \in 1 .. n |-> <<1>>]>>
    /\ \E dirs \in [1 .. n -> {0, 1}] :
         batch_dir_preds = <<Some([i \in 1 .. n |-> DirLogits(dirs[i])])>>
    /\ batch_anchors_mask = <<None>>

\* one sample of one or two anchors under every scoring configuration
InitScoring ==
  \E det \in Detectors, nc \in {1, 2}, bg \in BOOLEAN, sig \in BOOLEAN, mc \in BOOLEAN,
     thr \in {0, 50}, n \in {1, 2} :
    /\ cfg = Config(det, nc, bg, sig, mc, FALSE, FALSE, thr)
    /\ batch_box_preds = <<[i \in 1 .. n |-> BoxAt(i + 1, 100)]>>
    /\ batch_cls_preds \in [{1} -> [1 .. n -> [1 .. num_class_with_bg(cfg) -> {-1, 1}]]]
    /\ batch_dir_preds = <<None>>
    /\ batch_anchors_mask = <<None>>

\* one sample of five anchors on one class channel, the boxes all the same or
\* spread like BoxAt, under the extreme IoU thresholds and two size limits
InitNms ==
  \E det \in Detectors, rot \in BOOLEAN, thr \in {0, 50}, iou \in {0, 100},
     sizes \in {<<3, 2>>, <<0, 10>>}, same \in BOOLEAN :
    /\ cfg = [Config(det, 1, TRUE, TRUE, FALSE, rot, FALSE, thr) EXCEPT
                !.nms_pre_max_size = sizes[1], !.nms_post_max_size = sizes[2],
                !.nms_iou_threshold = iou]
    /\ batch_box_preds = <<[i \in 1 .. 5 |-> BoxAt(IF same THEN 1 ELSE i, 100)]>>
    /\ batch_cls_preds \in [{1} -> [1 .. 5 -> [{1} -> {-1, 0, 1}]]]
    /\ batch_dir_preds = <<None>>
    /\ batch_anchors_mask = <<None>>

Init ==
  /\ InitFlow \/ InitDirection \/ InitScoring \/ InitNms
  /\ StartPredict
  /\ IdleLoss
  /\ fw = IdleForward
  /\ cnv = IdleConvert

Next ==
  \/ Score
  \/ ScoreAssertFails
  \/ MulticlassNms
  \/ MulticlassNmsRaises
  \/ SingleClassNms
  \/ ResolveDirection
  \/ Package

Spec == Init /\ [][Next]_vars

\* ------------------------------------------------------------------
\* forward, training branch
\* ------------------------------------------------------------------
FracAdd(f, g) == Frac(f.num * g.den + g.num * f.den, f.den * g.den)
FracMul(f, n) == Frac(f.num * n, f.den)

RECURSIVE FracSum(_)
FracSum(fs) == IF fs = <<>> THEN FracOfInt(0) ELSE FracAdd(fs[1], FracSum(Tail(fs)))

\* tensor.sum() of a [batch][anchor] tensor
TensorSum(t) == FracSum(Concat(t))

\* a loss functor: the unweighted loss of each anchor times the anchor's weight
weighted_loss(raw, weights) ==
  [b \in DOMAIN raw |-> [i \in DOMAIN raw[b] |-> FracMul(weights[b][i], raw[b][i])]]

\* The classification loss tensor has shape [N, M] or [N, M, C], as the loss
\* functor makes it: it is held as its shape and its elements in row-major order.
Tensor(shape, data) == [shape |-> shape, data |-> data]

\* the sample and the anchor that element k of such a tensor belongs to
ChannelsOf(shape) == IF Len(shape) = 3 THEN shape[3] ELSE 1
SampleOf(shape, k) == ((k - 1) \div (shape[2] * ChannelsOf(shape))) + 1
AnchorOf(shape, k) == (((k - 1) \div ChannelsOf(shape)) % shape[2]) + 1

\* the classification loss functor: the unweighted loss of each element times
\* the weight of the element's anchor
weighted_cls_loss(raw, weights) ==
  Tensor(raw.shape,
         [k \in DOMAIN raw.data |->
            FracMul(weights[SampleOf(raw.shape, k)][AnchorOf(raw.shape, k)], raw.data[k])])

\* create_loss: the per-anchor localization and classification losses
create_loss(raw_loc, raw_cls, cls_weights, reg_weights) ==
  [loc_losses |-> weighted_loss(raw_loc, reg_weights),
   cls_losses |-> weighted_cls_loss(raw_cls, cls_weights)]

\* tensor.view(batch_size, -1): one row per sample
view(t, batch_size) ==
  LET n == Len(t.data) \div batch_size
  IN  [b \in 1 .. batch_size |-> SubSeq(t.data, (b - 1) * n + 1, b * n)]

\* _get_pos_neg_loss: on one channel or on a tensor without channels the losses
\* of the positive and of the negative anchors, else the losses of the channels
\* after the first and of the first channel, each summed over batch_size
get_pos_neg_loss(cls_loss, lbls) ==
  LET batch_size == cls_loss.shape[1]
      last == cls_loss.shape[Len(cls_loss.shape)]
      viewed == view(cls_loss, batch_size)
      part(keep(_)) ==
        [b \in DOMAIN lbls |-> [i \in DOMAIN lbls[b] |->
           FracMul(viewed[b][i], Ind(keep(lbls[b][i])))]]
      channels(keep(_)) ==
        [k \in DOMAIN cls_loss.data |->
           FracMul(cls_loss.data[k], Ind(keep((k - 1) % last)))]
  IN  IF last = 1 \/ Len(cls_loss.shape) = 2
      THEN [cls_pos_loss |-> FracDiv(TensorSum(part(LAMBDA l : l > 0)), batch_size),
            cls_neg_loss |-> FracDiv(TensorSum(part(LAMBDA l : l = 0)), batch_size)]
      ELSE [cls_pos_loss |-> FracDiv(FracSum(channels(LAMBDA c : c >= 1)), batch_size),
            cls_neg_loss |-> FracDiv(FracSum(channels(LAMBDA c : c = 0)), batch_size)]

\* lines 159-183: the losses, their reductions and loss
forward_losses(f, lbls, w, pos_w, neg_w) ==
  LET batch_size_dev == Len(lbls)
      created == create_loss(f.raw_loc, f.raw_cls, w.cls_weights, w.reg_weights)
      loc_loss_reduced == FracMul(FracDiv(TensorSum(created.loc_losses), batch_size_dev),
                                  f.loc_loss_weight)
      pos_neg == get_pos_neg_loss(created.cls_losses, lbls)
      cls_loss_reduced == FracMul(FracDiv(FracSum(created.cls_losses.data), batch_size_dev),
                                  f.cls_loss_weight)
  IN  [f EXCEPT
         !.loc_loss = created.loc_losses,
         !.cls_loss = created.cls_losses,
         !.loc_loss_reduced = Some(loc_loss_reduced),
         !.cls_pos_loss = Some(FracDiv(pos_neg.cls_pos_loss, pos_w)),
         !.cls_neg_loss = Some(FracDiv(pos_neg.cls_neg_loss, neg_w)),
         !.cls_loss_reduced = Some(cls_loss_reduced),
         !.loss = Some(FracAdd(loc_loss_reduced, cls_loss_reduced))]

\* lines 185-194: the direction targets, weights and loss, added to loss
forward_direction(f, lbls) ==
  LET batch_size_dev == Len(lbls)
      dir_targets == [b \in DOMAIN lbls |-> [i \in DOMAIN lbls[b] |->
                        get_direction_target(Yaw(0, 0), f.reg_target_yaw[b][i], TRUE)]]
      weights == [b \in DOMAIN lbls |-> [i \in DOMAIN lbls[b] |->
                    FracDiv(FracOfInt(Ind(lbls[b][i] > 0)),
                            clamp(RowSum(positives_of(lbls[b])), 1))]]
      dir_loss == FracDiv(TensorSum(weighted_loss(f.raw_dir, weights)), batch_size_dev)
  IN  [f EXCEPT
         !.dir_targets = dir_targets,
         !.dir_loss = Some(dir_loss),
         !.loss = Some(FracAdd(Val(f.loss), FracMul(dir_loss, f.direction_loss_weight)))]

\* lines 196-207: the dictionary forward returns
forward_result(f, w) ==
  [loss |-> Val(f.loss), cls_loss |-> f.cls_loss, loc_loss |-> f.loc_loss,
   cls_pos_loss |-> Val(f.cls_pos_loss), cls_neg_loss |-> Val(f.cls_neg_loss),
   dir_loss_reduced |-> Val(f.dir_loss), cls_loss_reduced |-> Val(f.cls_loss_reduced),
   loc_loss_reduced |-> Val(f.loc_loss_reduced), cared |-> w.cared]

ForwardLossWeights ==
  /\ fw.pc = "training"
  /\ loss_norm_type \in LossNormTypes
  /\ lw_ret' = prepare_loss_weights(labels, pos_cls_weight, neg_cls_weight, loss_norm_type)
  /\ lw_pc' = "returned"
  /\ fw' = [fw EXCEPT !.pc = "weights"]
  /\ UNCHANGED <<labels, pos_cls_weight, neg_cls_weight, loss_norm_type, pr_vars, cnv>>

ForwardLossWeightsRaise ==
  /\ fw.pc = "training"
  /\ loss_norm_type \notin LossNormTypes
  /\ lw_ret' = prepare_loss_weights(labels, pos_cls_weight, neg_cls_weight, loss_norm_type)
  /\ lw_pc' = "raised"
  /\ fw' = [fw EXCEPT !.pc = "raised", !.exc = lw_ret'.raised]
  /\ UNCHANGED <<labels, pos_cls_weight, neg_cls_weight, loss_norm_type, pr_vars, cnv>>

ForwardLosses ==
  /\ fw.pc = "weights"
  /\ fw' = [forward_losses(fw, labels, lw_ret, pos_cls_weight, neg_cls_weight)
              EXCEPT !.pc = "summed"]
  /\ UNCHANGED <<lw_vars, pr_vars, cnv>>

ForwardDirection ==
  /\ fw.pc = "summed"
  /\ fw.use_direction_classifier
  /\ fw' = [forward_direction(fw, labels) EXCEPT !.pc = "direction_added"]
  /\ UNCHANGED <<lw_vars, pr_vars, cnv>>

\* the return statement is reached with or without the direction block
AtReturn ==
  \/ fw.pc = "direction_added"
  \/ fw.pc = "summed" /\ ~fw.use_direction_classifier

\* the dictionary reads the local dir_loss, which only the direction block binds
ForwardReturn ==
  /\ AtReturn
  /\ ~IsNone(fw.dir_loss)
  /\ fw' = [fw EXCEPT !.pc = "returned", !.ret = Some(forward_result(fw, lw_ret))]
  /\ UNCHANGED <<lw_vars, pr_vars, cnv>>

ForwardReturnRaises ==
  /\ AtReturn
  /\ IsNone(fw.dir_loss)
  /\ fw' = [fw EXCEPT !.pc = "raised", !.exc = "UnboundLocalError"]
  /\ UNCHANGED <<lw_vars, pr_vars, cnv>>

\* the shapes the classification loss functor gives its result for labels of
\* shape [N, M]: without channels, with one channel, with two channels
ClsLossShapes(lbls) ==
  LET nm == <<Len(lbls), Len(lbls[1])>>
  IN  {nm, nm \o <<1>>, nm \o <<2>>}

\* the number of elements of a tensor of that shape
NumElements(shape) == shape[1] * shape[2] * ChannelsOf(shape)

\* a training call on every label tensor, class weight and policy of the loss
\* inputs, with and without the direction classifier, with a classification
\* loss of every shape
InitForward ==
  /\ labels \in LabelTensors
  /\ pos_cls_weight \in WeightValues
  /\ neg_cls_weight \in WeightValues
  /\ loss_norm_type \in NormTypeInputs
  /\ lw_pc = "idle"
  /\ lw_ret = NoRet
  /\ IdlePredict
  /\ cnv = IdleConvert
  /\ \E dir \in BOOLEAN : \E cls_shape \in ClsLossShapes(labels) :
       fw = [IdleForward EXCEPT
               !.pc = "training",
               !.use_direction_classifier = dir,
               !.loc_loss_weight = 2, !.cls_loss_weight = 1, !.direction_loss_weight = 3,
               !.raw_loc = [b \in DOMAIN labels |-> [i \in DOMAIN labels[b] |-> i]],
               !.raw_cls = Tensor(cls_shape, [k \in 1 .. NumElements(cls_shape) |-> 1 + (k % 2)]),
               !.raw_dir = [b \in DOMAIN labels |-> [i \in DOMAIN labels[b] |-> 1 + (i % 2)]],
               !.reg_target_yaw = [b \in DOMAIN labels |-> [i \in DOMAIN labels[b] |->
                                     Yaw(IF i % 2 = 1 THEN 100 ELSE -100, 0)]]]

NextForward ==
  \/ ForwardLossWeights
  \/ ForwardLossWeightsRaise
  \/ ForwardLosses
  \/ ForwardDirection
  \/ ForwardReturn
  \/ ForwardReturnRaises

SpecForward == InitForward /\ [][NextForward]_vars

\* ------------------------------------------------------------------
\* convert_norm_to_float
\* ------------------------------------------------------------------
\* A module tree: module 1 is the net, parent[m] < m is the module that holds
\* module m as a child, and 0 stands for no parent.
ModuleTrees ==
  UNION {{p \in [1 .. n -> 0 .. n - 1] :
            p[1] = 0 /\ \A m \in 2 .. n : p[m] >= 1 /\ p[m] < m} : n \in 1 .. MaxModules}

\* net.children(): the direct children of a module, in registration order
children(parent, net) ==
  IdxWhere([m \in DOMAIN parent |-> parent[m] = net])

\* module m is net or a module below net
RECURSIVE in_modules(_, _, _)
in_modules(parent, net, m) ==
  IF m = net THEN TRUE
  ELSE IF parent[m] = 0 THEN FALSE
  ELSE in_modules(parent, net, parent[m])

\* net.float(): the cast is applied to net and, child by child, to every
\* module below it
float(parent, is_float, net) ==
  [m \in DOMAIN is_float |-> is_float[m] \/ in_modules(parent, net, m)]

\* the frame of a call convert_norm_to_float(net) that has just been entered
frame(net) == [net |-> net, phase |-> "enter", iterated |-> 0]

\* the argument of the recursive call made for a child of net
recursive_argument(net, child) == net

IdleOthers ==
  /\ IdleLoss
  /\ IdlePredict
  /\ fw = IdleForward

\* the call convert_norm_to_float(net) on a tree in half precision, any of
\* whose modules may be a batch-norm module
InitConvert ==
  /\ IdleOthers
  /\ \E p \in ModuleTrees : \E bn \in [DOMAIN p -> BOOLEAN] :
       cnv = [IdleConvert EXCEPT
                !.pc = "running", !.parent = p, !.is_bn = bn,
                !.is_float = [m \in DOMAIN p |-> FALSE],
                !.stack = <<frame(1)>>]

\* if isinstance(net, _BatchNorm): net.float()
ConvertNorm ==
  /\ cnv.pc = "running"
  /\ cnv.stack[Len(cnv.stack)].phase = "enter"
  /\ LET top == Len(cnv.stack)
         net == cnv.stack[top].net
     IN  cnv' = [cnv EXCEPT
                   !.is_float = IF cnv.is_bn[net] THEN float(cnv.parent, @, net) ELSE @,
                   !.visited = @ \cup {net},
                   !.stack[top].phase = "loop"]
  /\ UNCHANGED <<lw_vars, pr_vars, fw>>

\* the loop of the top frame has a child left to iterate over
HasNextChild ==
  /\ cnv.pc = "running"
  /\ cnv.stack[Len(cnv.stack)].phase = "loop"
  /\ cnv.stack[Len(cnv.stack)].iterated
       < Len(children(cnv.parent, cnv.stack[Len(cnv.stack)].net))

\* for child in net.children(): PointPillars.convert_norm_to_float(net)
ConvertRecurse ==
  /\ HasNextChild
  /\ Len(cnv.stack) < RecursionLimit
  /\ LET top == Len(cnv.stack)
         net == cnv.stack[top].net
         child == children(cnv.parent, net)[cnv.stack[top].iterated + 1]
     IN  cnv' = [cnv EXCEPT
                   !.stack = Append([@ EXCEPT ![top].iterated = @ + 1],
                                    frame(recursive_argument(net, child)))]
  /\ UNCHANGED <<lw_vars, pr_vars, fw>>

\* the recursive call that exceeds the interpreter's recursion limit
ConvertRecursionError ==
  /\ HasNextChild
  /\ Len(cnv.stack) >= RecursionLimit
  /\ cnv' = [cnv EXCEPT !.pc = "raised", !.exc = "RecursionError", !.stack = <<>>]
  /\ UNCHANGED <<lw_vars, pr_vars, fw>>

\* return net, to the calling frame or to the caller of the outermost call
ConvertReturn ==
  /\ cnv.pc = "running"
  /\ cnv.stack[Len(cnv.stack)].phase = "loop"
  /\ ~HasNextChild
  /\ LET top == Len(cnv.stack)
     IN  cnv' = IF top = 1
                THEN [cnv EXCEPT !.pc = "returned", !.ret = Some(cnv.stack[top].net),
                                 !.stack = <<>>]
                ELSE [cnv EXCEPT !.stack = SubSeq(@, 1, top - 1)]
  /\ UNCHANGED <<lw_vars, pr_vars, fw>>

NextConvert ==
  \/ ConvertNorm
  \/ ConvertRecurse
  \/ ConvertRecursionError
  \/ ConvertReturn

SpecConvert == InitConvert /\ [][NextConvert]_vars

\* ==================================================================
\* Properties of predict
\* ==================================================================
\* the image index carried by a packaged result
ImageIdxOf(r) == IF cfg.detector = "PointPillars" THEN r.image_idx ELSE Val(r[Len(r)])

\* the box, score and label fields of a packaged result
BoxesOf(r) == IF cfg.detector = "PointPillars" THEN r.box3d_lidar ELSE r[1]
ScoresOf(r) == IF cfg.detector = "PointPillars" THEN r.scores ELSE r[2]
LabelsOf(r) == IF cfg.detector = "PointPillars" THEN r.label_preds ELSE r[3]

\* C1: with sigmoid scoring, under every combination of the multiclass-NMS,
\* rotated-NMS and direction-classifier flags, predict raises nothing, holds one
\* result per sample processed, in sample order, each with that sample's image
\* index, and has one result per sample of the batch when it returns.
C1_OneResultPerSample ==
  (pc # "idle" /\ cfg.use_sigmoid_score) =>
    /\ pc # "raised"
    /\ Len(predictions_dicts) = (IF pc = "returned" THEN BatchSize ELSE sample_k - 1)
    /\ \A b \in DOMAIN predictions_dicts : ImageIdxOf(predictions_dicts[b]) = batch_imgidx[b]

\* what the multiclass branch is to select: per class in increasing order, the
\* boxes at the positions per-class NMS returned, labelled with the class,
\* scored with the anchor's score for the class, with the anchor's direction class
ExpectedPerClass(l, spc, f(_, _)) ==
  Concat([i \in DOMAIN spc |->
            IF IsNone(spc[i]) THEN <<>>
            ELSE [j \in 1 .. Len(Val(spc[i])) |-> f(i, Val(spc[i])[j])]])

ExpectedBoxes(l, spc) == ExpectedPerClass(l, spc, LAMBDA i, a : l.box_preds[a])
ExpectedLabels(l, spc) == ExpectedPerClass(l, spc, LAMBDA i, a : i - 1)
ExpectedScores(l, spc) == ExpectedPerClass(l, spc, LAMBDA i, a : l.total_scores[a][i])
ExpectedDirs(l, spc) == ExpectedPerClass(l, spc, LAMBDA i, a : Val(l.dir_labels)[a])

OrNone(s) == IF s = <<>> THEN None ELSE Some(s)

\* C2: with multiclass NMS, once a sample has left the NMS step its detections
\* are the concatenation over the classes, in increasing order, of the boxes
\* per-class NMS selected, with label, class score and direction class of the
\* same anchor; boxes, scores and labels have the same length.
C2_MulticlassConcatenation ==
  (pc \in {"NMS_FILTERED", "raised"} /\ cfg.multiclass_nms /\ cfg.use_sigmoid_score) =>
    LET spc == selected_per_class_of(cfg, loc)
    IN  /\ loc.selected_boxes = OrNone(ExpectedBoxes(loc, spc))
        /\ loc.selected_labels = OrNone(ExpectedLabels(loc, spc))
        /\ loc.selected_scores = OrNone(ExpectedScores(loc, spc))
        /\ cfg.use_direction_classifier =>
             loc.selected_dir_labels = OrNone(ExpectedDirs(loc, spc))

\* no score of sample b passes the score threshold
NoScorePasses(b) ==
  /\ cfg.nms_score_threshold > 0
  /\ \A a \in DOMAIN batch_cls_preds[b] :
       (IsNone(batch_anchors_mask[b]) \/ Val(batch_anchors_mask[b])[a]) =>
         \A n \in 1 .. cfg.num_class :
           total_scores_of(cfg, batch_cls_preds[b][a])[n] < cfg.nms_score_threshold

\* the position of the image index in a non-empty result of PointPillars_trt
TrtImageIdxPosition == 4

\* C3: a sample without detections gets a normal result whose box, score and
\* label fields are None and whose image index sits where a non-empty result
\* has it; a sample none of whose scores passes the threshold is such a sample.
C3_NoDetectionResult ==
  (pc # "idle" /\ cfg.use_sigmoid_score) =>
    \A b \in DOMAIN predictions_dicts :
      LET r == predictions_dicts[b]
      IN  /\ NoScorePasses(b) => IsNone(BoxesOf(r))
          /\ IsNone(BoxesOf(r)) =>
               /\ IsNone(ScoresOf(r)) /\ IsNone(LabelsOf(r))
               /\ IF cfg.detector = "PointPillars"
                  THEN r.image_idx = batch_imgidx[b]
                  ELSE r[TrtImageIdxPosition] = Some(batch_imgidx[b])

\* the direction resolver is about to act on detections
ResolverActs ==
  /\ pc = "NMS_FILTERED" /\ pc' = "DIRECTION_RESOLVED"
  /\ cfg.use_direction_classifier
  /\ ~IsNone(loc.selected_boxes)

\* C4: with the direction classifier, every detection leaves the resolver with
\* yaw + pi if (yaw > 0) differs from (direction class non-zero) and with its
\* yaw unchanged otherwise; its other six fields, score and label are unchanged.
C4_ResolverAddsPiOnDisagreement ==
  [][ResolverActs =>
       /\ Len(loc'.box_preds) = Len(Val(loc.selected_boxes))
       /\ \A j \in DOMAIN Val(loc.selected_boxes) :
            LET pre == Val(loc.selected_boxes)[j]
                post == loc'.box_preds[j]
                d == Val(loc.selected_dir_labels)[j]
            IN  /\ post[7] = IF (YawGtZero(pre[7]) /\ d = 0) \/ (~YawGtZero(pre[7]) /\ d # 0)
                             THEN Yaw(pre[7].mrad, pre[7].pi + 1)
                             ELSE pre[7]
                /\ \A f \in 1 .. 6 : post[f] = pre[f]
       /\ loc'.scores = loc.selected_scores
       /\ loc'.label_preds = loc.selected_labels]_vars

\* a sample has been resolved with one detection turned and one left as decoded
C4_Witness ==
  /\ pc = "DIRECTION_RESOLVED" /\ cfg.use_direction_classifier
  /\ ~IsNone(loc.selected_boxes)
  /\ \E i, j \in DOMAIN loc.box_preds :
       loc.box_preds[i][7].pi = 1 /\ loc.box_preds[j][7].pi = 0

\* the detections of the sample whose direction has been resolved
Resolved ==
  /\ pc = "DIRECTION_RESOLVED" /\ cfg.use_direction_classifier
  /\ ~IsNone(loc.selected_boxes)

\* the decoded yaw of a resolved detection is its mrad part: decoding yields pi = 0
DecodedYaw(box) == Yaw(box[7].mrad, 0)

\* C5 as stated: decoded yaw 0.1 rad with direction class 1 leaves the resolver
\* as 0.1 + pi.
C5_Original ==
  Resolved =>
    \A j \in DOMAIN loc.box_preds :
      (DecodedYaw(loc.box_preds[j]) = Yaw(100, 0) /\ Val(loc.dir_labels)[j] = 1) =>
        loc.box_preds[j][7] = Yaw(100, 1)

\* C5 amended: decoded yaw 0.1 rad leaves the resolver unchanged with direction
\* class 1 and as 0.1 + pi with direction class 0.
C5_PositiveYawTurnsOnClassZero ==
  Resolved =>
    \A j \in DOMAIN loc.box_preds :
      DecodedYaw(loc.box_preds[j]) = Yaw(100, 0) =>
        loc.box_preds[j][7] = IF Val(loc.dir_labels)[j] = 1 THEN Yaw(100, 0) ELSE Yaw(100, 1)

C5_Witness ==
  /\ Resolved
  /\ \E i, j \in DOMAIN loc.box_preds :
       /\ DecodedYaw(loc.box_preds[i]) = Yaw(100, 0) /\ Val(loc.dir_labels)[i] = 1
       /\ DecodedYaw(loc.box_preds[j]) = Yaw(100, 0) /\ Val(loc.dir_labels)[j] = 0

\* C6 as stated: after resolution (output yaw > 0) equals (direction class is 1).
C6_Original ==
  Resolved =>
    \A j \in DOMAIN loc.box_preds :
      YawGtZero(loc.box_preds[j][7]) <=> (Val(loc.dir_labels)[j] = 1)

\* a decoded yaw strictly between -pi and pi
InsideHalfTurn(y) == y.pi = 0 /\ y.mrad >= -3141 /\ y.mrad <= 3141

\* a yaw in (-pi, 2 pi] reduced modulo 2 pi into (-pi, pi]
Wrapped(y) == IF YawGtZero(Yaw(y.mrad, y.pi - 1)) THEN Yaw(y.mrad, y.pi - 2) ELSE y

\* C6 amended: for a decoded yaw in (-pi, pi), the output yaw reduced modulo
\* 2 pi into (-pi, pi] has the direction class get_direction_target gives a
\* target of that yaw (class 1 iff the yaw is > 0) equal to the predicted class.
C6_HemisphereModuloFullTurn ==
  Resolved =>
    \A j \in DOMAIN loc.box_preds :
      InsideHalfTurn(DecodedYaw(loc.box_preds[j])) =>
        get_direction_target(Yaw(0, 0), Wrapped(loc.box_preds[j][7]), FALSE)
          = Val(loc.dir_labels)[j]

\* a detection decoded with positive yaw and class 0 has been turned past pi
C6_Witness ==
  /\ Resolved
  /\ \E j \in DOMAIN loc.box_preds :
       /\ InsideHalfTurn(DecodedYaw(loc.box_preds[j]))
       /\ loc.box_preds[j][7].mrad > 0 /\ loc.box_preds[j][7].pi = 1
       /\ Val(loc.dir_labels)[j] = 0

\* ==================================================================
\* Properties of prepare_loss_weights
\* ==================================================================
Returned == lw_pc = "returned"

NumPositives(row) == Cardinality({i \in DOMAIN row : row[i] > 0})
NumNegatives(row) == Cardinality({i \in DOMAIN row : row[i] = 0})
NumCared(row) == Cardinality({i \in DOMAIN row : row[i] >= 0})
AtLeastOne(n) == IF n < 1 THEN 1 ELSE n

\* n/d equals the fraction f
IsFrac(f, n, d) == f.den > 0 /\ f.num * d = n * f.den

\* C7: labels [-1, 0, 1], both class weights 1, NormByNumPositives: the call
\* returns cared = [F, T, T], reg_weights = [0, 0, 1], cls_weights = [0, 1, 2].
C7_Scenario ==
  (/\ Returned
   /\ labels = <<(<<-1, 0, 1>>)>>
   /\ pos_cls_weight = 1 /\ neg_cls_weight = 1
   /\ loss_norm_type = "NormByNumPositives") =>
    /\ lw_ret.cared = <<(<<FALSE, TRUE, TRUE>>)>>
    /\ \A i \in 1 .. 3 : IsFrac(lw_ret.reg_weights[1][i], <<0, 0, 1>>[i], 1)
    /\ \A i \in 1 .. 3 : IsFrac(lw_ret.cls_weights[1][i], <<0, 1, 2>>[i], 1)

\* C8: under each policy reg_weights is 1 / max(1, positives of the row) on
\* anchors with label > 0 and exactly 0 elsewhere, and no divisor is zero.
C8_RegWeights ==
  Returned =>
    \A b \in DOMAIN labels : \A i \in DOMAIN labels[b] :
      /\ lw_ret.reg_weights[b][i].den > 0
      /\ IF labels[b][i] > 0
         THEN IsFrac(lw_ret.reg_weights[b][i], 1, AtLeastOne(NumPositives(labels[b])))
         ELSE lw_ret.reg_weights[b][i].num = 0

\* a batch with a row without positives and a row with two positives has returned
C8_Witness ==
  /\ Returned
  /\ \E b, c \in DOMAIN labels :
       /\ NumPositives(labels[b]) = 0 /\ NumPositives(labels[c]) >= 2
       /\ \A i \in DOMAIN labels[b] : lw_ret.reg_weights[b][i].num = 0
       /\ \E i \in DOMAIN labels[c] : lw_ret.reg_weights[c][i] = [num |-> 1, den |-> 2]

\* the size of the group (positive, negative, ignored) anchor i of a row is in
GroupSize(row, i) ==
  IF row[i] > 0 THEN NumPositives(row) ELSE IF row[i] = 0 THEN NumNegatives(row) ELSE 1

\* C9: under NormByNumPosNeg cls_weights is (neg + pos * 1[label > 0]) divided
\* by the size of the anchor's own group in its row, 1 for an ignored anchor.
C9_PosNegClsWeights ==
  (Returned /\ loss_norm_type = "NormByNumPosNeg") =>
    \A b \in DOMAIN labels : \A i \in DOMAIN labels[b] :
      IsFrac(lw_ret.cls_weights[b][i],
             neg_cls_weight + pos_cls_weight * (IF labels[b][i] > 0 THEN 1 ELSE 0),
             AtLeastOne(GroupSize(labels[b], i)))

\* a row with two negatives and a positive or ignored anchor beside them has returned
C9_Witness ==
  /\ Returned /\ loss_norm_type = "NormByNumPosNeg"
  /\ \E b \in DOMAIN labels :
       /\ NumNegatives(labels[b]) = 2
       /\ \E i \in DOMAIN labels[b] : labels[b][i] # 0
       /\ \E i \in DOMAIN labels[b] :
            labels[b][i] = 0 /\ lw_ret.cls_weights[b][i].den = 2

\* C10: under NormByNumExamples cls_weights of every anchor is
\* (neg + pos * 1[label > 0]) / max(1, anchors of the row with label >= 0), and
\* the weights of a row are those of the call on that row alone.
C10_ExamplesClsWeights ==
  (Returned /\ loss_norm_type = "NormByNumExamples") =>
    \A b \in DOMAIN labels :
      /\ \A i \in DOMAIN labels[b] :
           IsFrac(lw_ret.cls_weights[b][i],
                  neg_cls_weight + pos_cls_weight * (IF labels[b][i] > 0 THEN 1 ELSE 0),
                  AtLeastOne(NumCared(labels[b])))
      /\ LET alone == prepare_loss_weights(<<labels[b]>>, pos_cls_weight, neg_cls_weight,
                                           loss_norm_type)
         IN  /\ lw_ret.cls_weights[b] = alone.cls_weights[1]
             /\ lw_ret.reg_weights[b] = alone.reg_weights[1]
             /\ lw_ret.cared[b] = alone.cared[1]

\* a batch of two rows with different numbers of cared anchors, one of them
\* holding an ignored anchor, has returned
C10_Witness ==
  /\ Returned /\ loss_norm_type = "NormByNumExamples"
  /\ \E b, c \in DOMAIN labels :
       /\ NumCared(labels[b]) = 2 /\ NumCared(labels[c]) = 1
       /\ \E i \in DOMAIN labels[c] : labels[c][i] = -1 /\ lw_ret.cls_weights[c][i].num > 0

\* C11: under every policy the call returns cared = (labels >= 0) elementwise,
\* so every positive anchor is cared and a row has at least as many cared
\* anchors as positives; the call leaves the label tensor as it was.
C11_CaredIsNonNegativeLabel ==
  [][(lw_pc = "call" /\ lw_pc' = "returned") =>
       /\ labels' = labels
       /\ DOMAIN lw_ret'.cared = DOMAIN labels
       /\ \A b \in DOMAIN labels :
            /\ DOMAIN lw_ret'.cared[b] = DOMAIN labels[b]
            /\ \A i \in DOMAIN labels[b] :
                 /\ lw_ret'.cared[b][i] <=> (labels[b][i] >= 0)
                 /\ labels[b][i] > 0 => lw_ret'.cared[b][i]
            /\ Cardinality({i \in DOMAIN labels[b] : lw_ret'.cared[b][i]})
                 >= NumPositives(labels[b])]_vars

\* a row holding an ignored, a negative and a positive anchor has returned with
\* two cared anchors
C11_Witness ==
  /\ Returned
  /\ \E b \in DOMAIN labels :
       /\ {-1, 0, 1} \subseteq {labels[b][i] : i \in DOMAIN labels[b]}
       /\ NumPositives(labels[b]) = 1
       /\ Cardinality({i \in DOMAIN labels[b] : lw_ret.cared[b][i]}) = 2

\* C12: a loss norm type outside the three policies makes the call raise
\* ValueError, without returning weights.
C12_UnknownNormRaisesValueError ==
  (lw_pc # "idle" /\ lw_pc # "call" /\ loss_norm_type \notin LossNormTypes) =>
    /\ lw_pc = "raised"
    /\ lw_ret = [raised |-> "ValueError"]

\* ==================================================================
\* Further properties of predict
\* ==================================================================
\* C13: with background encoded as all-zeros and use_sigmoid_score not True,
\* predict gets no further than the scoring of its first sample: the only step
\* it can take there raises AssertionError, no score has been computed, no NMS
\* has run, nothing has been packaged, and it never returns.
C13_SoftmaxWithZeroBackgroundAsserts ==
  (pc # "idle" /\ cfg.encode_background_as_zeros /\ ~cfg.use_sigmoid_score) =>
    /\ pc \in {"RAW_LOGITS", "raised"}
    /\ sample_k = 1
    /\ predictions_dicts = <<>>
    /\ loc.total_scores = <<>>
    /\ IsNone(loc.boxes_for_nms) /\ IsNone(loc.selected) /\ IsNone(loc.selected_boxes)
    /\ IsNone(loc.scores) /\ IsNone(loc.label_preds)
    /\ pc = "RAW_LOGITS" => (ENABLED ScoreAssertFails /\ ~ENABLED Score)
    /\ pc = "raised" => exc = "AssertionError"

\* predict has raised AssertionError on a batch under that configuration
C13_Witness ==
  /\ pc = "raised" /\ exc = "AssertionError"
  /\ cfg.encode_background_as_zeros /\ ~cfg.use_sigmoid_score
  /\ BatchSize >= 1 /\ Len(batch_cls_preds[1]) = 2
  /\ loc.img_idx = batch_imgidx[1] /\ loc.total_scores = <<>>
  /\ predictions_dicts = <<>>

\* the sample being processed holds detections whose direction is resolved
Detections == pc = "DIRECTION_RESOLVED" /\ ~IsNone(loc.selected_boxes)

\* the box as it was decoded: the yaw without the half turn of the resolver
Decoded(box) == [box EXCEPT ![7] = Yaw(box[7].mrad, 0)]

\* C14: with an anchor mask, every detection of the sample comes from an anchor
\* the mask lets through, and its box, score, label and direction class are
\* those of that one anchor.
C14_MaskedAnchorsDropped ==
  (Detections /\ ~IsNone(batch_anchors_mask[sample_k])) =>
    /\ Len(loc.box_rows) = Len(loc.box_preds)
    /\ Len(Val(loc.scores)) = Len(loc.box_preds)
    /\ Len(Val(loc.label_preds)) = Len(loc.box_preds)
    /\ \A j \in DOMAIN loc.box_preds :
         LET a == loc.box_rows[j]
             anchor_scores == total_scores_of(cfg, batch_cls_preds[sample_k][a])
         IN  /\ Val(batch_anchors_mask[sample_k])[a]
             /\ Decoded(loc.box_preds[j]) = batch_box_preds[sample_k][a]
             /\ Val(loc.scores)[j] = RowMax(anchor_scores)
             /\ Val(loc.label_preds)[j] = RowArgMax(anchor_scores)
             /\ cfg.use_direction_classifier =>
                  Val(loc.dir_labels)[j] = RowArgMax(Val(batch_dir_preds[sample_k])[a])

\* a sample has detections although the anchor its mask drops has a score that
\* passes the threshold, with the direction classifier on
C14_Witness ==
  /\ Detections /\ ~IsNone(batch_anchors_mask[sample_k])
  /\ cfg.use_direction_classifier /\ cfg.nms_score_threshold > 0
  /\ \E a \in DOMAIN batch_box_preds[sample_k] :
       /\ ~Val(batch_anchors_mask[sample_k])[a]
       /\ RowMax(total_scores_of(cfg, batch_cls_preds[sample_k][a])) >= cfg.nms_score_threshold
  /\ Len(loc.box_preds) = 2

\* C15: no step of predict changes the decoded boxes, the logits, the image
\* indices or the mask it was called with; the half turn of the resolver goes to
\* a tensor with storage of its own, so the batch tensors hold their values
\* when predict returns.
C15_InputsUntouched ==
  [][pc # "idle" =>
       /\ batch_box_preds' = batch_box_preds
       /\ batch_cls_preds' = batch_cls_preds
       /\ batch_dir_preds' = batch_dir_preds
       /\ batch_anchors_mask' = batch_anchors_mask
       /\ batch_imgidx' = batch_imgidx
       /\ (pc = "NMS_FILTERED" /\ ~IsNone(loc.selected_boxes)) =>
            loc.selected_storage = "own"]_vars

\* predict has returned a detection turned by pi, taken without score filter or
\* mask from a batch tensor whose boxes all keep their decoded yaw
C15_Witness ==
  /\ pc = "returned" /\ cfg.use_direction_classifier
  /\ cfg.nms_score_threshold = 0 /\ IsNone(batch_anchors_mask[1])
  /\ \E b \in DOMAIN predictions_dicts :
       /\ ~IsNone(BoxesOf(predictions_dicts[b]))
       /\ \E j \in DOMAIN Val(BoxesOf(predictions_dicts[b])) :
            Val(BoxesOf(predictions_dicts[b]))[j][7].pi = 1
  /\ \A b \in DOMAIN batch_box_preds : \A a \in DOMAIN batch_box_preds[b] :
       batch_box_preds[b][a][7].pi = 0

\* the NMS step of a sample scored as l, and whether it raises
NmsStepOf(c, l) ==
  IF c.multiclass_nms THEN multiclass_selected(c, l, selected_per_class_of(c, l))
  ELSE single_class_selected(c, l)
NmsStepRaises(c, l) == c.multiclass_nms /\ multiclass_raises(c, selected_per_class_of(c, l))

\* predict on the batch that holds sample b alone: whether it returns, and the
\* result it packages
AloneReturns(b) == SigmoidAssertionHolds(cfg) /\ ~NmsStepRaises(cfg, ScoredLoc(b))
AloneResult(b) == predictions_dict_of(cfg, resolved_loc(cfg, NmsStepOf(cfg, ScoredLoc(b))))

\* C16: the result of a sample depends on that sample and the configuration
\* only: when predict has ended, every sample that yields a result in a batch
\* of its own has that same result in this batch, whatever the other samples
\* of the batch are.
C16_ResultOfOwnSampleOnly ==
  pc \in {"returned", "raised"} =>
    \A b \in 1 .. BatchSize :
      AloneReturns(b) =>
        /\ pc = "returned"
        /\ predictions_dicts[b] = AloneResult(b)

\* the single-class NMS of the sample has been called on at least one box;
\* its input rows are loc.box_preds, scored by the top scores of those rows
NmsCalled ==
  /\ pc = "NMS_FILTERED" /\ ~cfg.multiclass_nms
  /\ ~IsNone(loc.selected)
  /\ Len(loc.box_preds) > 0

\* the score NMS was given for row j of its input
NmsScore(j) == RowMax(total_scores_of(cfg, batch_cls_preds[sample_k][loc.box_rows[j]]))

\* the number of candidates a size limit leaves of n (no limit when <= 0 or >= n)
Limited(n, limit) == IF limit <= 0 \/ limit >= n THEN n ELSE limit

\* C17: with IoU threshold 1.0 NMS suppresses nothing: it keeps
\* min(N after the pre-filter, post_max_size) distinct boxes. With IoU
\* threshold 0.0, five identical boxes reduce to one survivor, the box with the
\* highest score, the one of lowest position among equal scores.
C17_NmsThresholdExtremes ==
  NmsCalled =>
    LET n == Len(loc.box_preds)
        sel == Val(loc.selected)
    IN  /\ cfg.nms_iou_threshold = 100 =>
             /\ Len(sel) = Limited(Limited(n, cfg.nms_pre_max_size), cfg.nms_post_max_size)
             /\ \A i, j \in DOMAIN sel : sel[i] = sel[j] => i = j
        /\ (/\ cfg.nms_iou_threshold = 0
            /\ n = 5
            /\ \A j \in 1 .. n : loc.box_preds[j] = loc.box_preds[1]) =>
             /\ Len(sel) = 1
             /\ \A j \in 1 .. n : NmsScore(j) <= NmsScore(sel[1])
             /\ \A j \in 1 .. n : NmsScore(j) = NmsScore(sel[1]) => sel[1] <= j

\* five identical boxes whose highest score occurs twice, not at the first
\* position, have been reduced to one under threshold 0.0
C17_Witness ==
  /\ NmsCalled /\ cfg.nms_iou_threshold = 0
  /\ Len(loc.box_preds) = 5
  /\ \A j \in 1 .. 5 : loc.box_preds[j] = loc.box_preds[1]
  /\ Val(loc.selected) = <<2>>
  /\ NmsScore(1) < NmsScore(2) /\ NmsScore(4) = NmsScore(2)

\* the anchors of the sample being processed that its mask lets through
AnchorsOfSample == masked([a \in DOMAIN batch_box_preds[sample_k] |-> a],
                          batch_anchors_mask[sample_k])

\* the highest class score of anchor a of the sample, and whether it passes the
\* score threshold
TopScore(a) == RowMax(total_scores_of(cfg, batch_cls_preds[sample_k][a]))
Passes(a) == cfg.nms_score_threshold > 0 => TopScore(a) >= cfg.nms_score_threshold

\* C18: in the single-class path the anchors handed to NMS are exactly those
\* whose highest class score is >= the threshold when the threshold is > 0,
\* and all anchors otherwise; each detection has the box, the highest class
\* score, the position of that score as label (0 on a single channel) and the
\* direction class of the anchor NMS selected among them, so its score is >=
\* the threshold.
C18_SingleClassScoreFilter ==
  (pc = "NMS_FILTERED" /\ ~cfg.multiclass_nms) =>
    LET passing == SelectSeq(AnchorsOfSample, Passes)
    IN  /\ cfg.nms_score_threshold <= 0 => passing = AnchorsOfSample
        /\ IsNone(loc.selected) <=> passing = <<>>
        /\ IsNone(loc.selected_boxes) <=> IsNone(loc.selected)
        /\ ~IsNone(loc.selected) =>
             /\ loc.box_rows = passing
             /\ loc.box_preds = SelectRows(batch_box_preds[sample_k], passing)
             /\ Len(Val(loc.selected_boxes)) = Len(Val(loc.selected))
             /\ Len(Val(loc.selected_scores)) = Len(Val(loc.selected))
             /\ Len(Val(loc.selected_labels)) = Len(Val(loc.selected))
             /\ \A j \in DOMAIN Val(loc.selected) :
                  LET a == passing[Val(loc.selected)[j]]
                  IN  /\ Val(loc.selected_boxes)[j] = batch_box_preds[sample_k][a]
                      /\ Val(loc.selected_scores)[j] = TopScore(a)
                      /\ cfg.nms_score_threshold > 0 =>
                           Val(loc.selected_scores)[j] >= cfg.nms_score_threshold
                      /\ Val(loc.selected_labels)[j] =
                           (IF num_class_with_bg(cfg) = 1 THEN 0
                            ELSE RowArgMax(total_scores_of(cfg, batch_cls_preds[sample_k][a])))
                      /\ cfg.use_direction_classifier =>
                           Val(loc.selected_dir_labels)[j] =
                             RowArgMax(Val(batch_dir_preds[sample_k])[a])

\* under threshold 0.5 a detection has a score of exactly 0.5 while an earlier
\* anchor of the sample, scored below 0.5, was held back from NMS
C18_Witness ==
  /\ pc = "NMS_FILTERED" /\ ~cfg.multiclass_nms
  /\ cfg.nms_score_threshold = 50
  /\ ~IsNone(loc.selected_scores)
  /\ \E j \in DOMAIN Val(loc.selected_scores) : Val(loc.selected_scores)[j] = 50
  /\ ~Passes(1)
  /\ Len(loc.box_preds) < Len(batch_box_preds[sample_k])

\* the NMS function of the sample has been called: the multiclass NMS, or the
\* single-class NMS on at least one box; its input rows are loc.box_preds
NmsHandedBoxes ==
  \/ pc = "NMS_FILTERED" /\ (cfg.multiclass_nms \/ ~IsNone(loc.selected))
  \/ pc = "raised" /\ exc = "RuntimeError"

\* C19: the boxes handed to NMS are the axis-aligned standup boxes
\* (min-x, min-y, max-x, max-y) of the decoded boxes when rotated NMS is
\* disabled and their BEV boxes (x, y, w, l, yaw) when it is enabled, in the
\* single-class and the multiclass path of both detectors; the selected
\* detections are rows of the 7-value decoded boxes.
C19_BoxesHandedToNms ==
  NmsHandedBoxes =>
    /\ Val(loc.boxes_for_nms) =
         (IF cfg.use_rotate_nms
          THEN [a \in DOMAIN loc.box_preds |-> bev_of(loc.box_preds[a])]
          ELSE [a \in DOMAIN loc.box_preds |-> standup_of(loc.box_preds[a])])
    /\ ~IsNone(loc.selected_boxes) =>
         \A j \in DOMAIN Val(loc.selected_boxes) :
           /\ Len(Val(loc.selected_boxes)[j]) = 7
           /\ Val(loc.selected_boxes)[j] = batch_box_preds[sample_k][loc.selected_rows[j]]

\* ==================================================================
\* Properties of forward in training mode
\* ==================================================================
\* sum over the anchors of raw loss times weight, the weight given per anchor
WeightedSum(raw, weight(_, _)) ==
  FracSum(Concat([b \in DOMAIN raw |-> [i \in DOMAIN raw[b] |->
                    FracMul(weight(b, i), raw[b][i])]]))

\* sum over the elements of the raw classification loss, each times the
\* classification weight of its anchor
ClsWeightedSum ==
  FracSum([k \in DOMAIN fw.raw_cls.data |->
             FracMul(lw_ret.cls_weights[SampleOf(fw.raw_cls.shape, k)]
                                       [AnchorOf(fw.raw_cls.shape, k)],
                     fw.raw_cls.data[k])])

\* the loss the training branch is to return
ExpectedLoss ==
  LET batch_size == Len(labels)
      loc_part == FracMul(FracDiv(WeightedSum(fw.raw_loc, LAMBDA b, i : lw_ret.reg_weights[b][i]),
                             batch_size), fw.loc_loss_weight)
      cls_part == FracMul(FracDiv(ClsWeightedSum, batch_size), fw.cls_loss_weight)
      dir_part == FracMul(FracDiv(WeightedSum(fw.raw_dir, LAMBDA b, i :
                                 Frac(IF labels[b][i] > 0 THEN 1 ELSE 0,
                                      AtLeastOne(NumPositives(labels[b])))),
                             batch_size), fw.direction_loss_weight)
  IN  IF fw.use_direction_classifier THEN FracAdd(FracAdd(loc_part, cls_part), dir_part)
      ELSE FracAdd(loc_part, cls_part)

\* C20: a training call under one of the three policies ends by returning the
\* loss dictionary, with or without the direction classifier, and its loss is
\* loc_loss_weight * sum(loc_loss) / batch_size + cls_loss_weight *
\* sum(cls_loss) / batch_size, plus, with the direction classifier,
\* direction_loss_weight * sum(dir loss weighted by 1[label > 0] /
\* max(1, positives of the sample)) / batch_size.
C20_TrainingReturnsLoss ==
  (fw.pc \in {"returned", "raised"} /\ loss_norm_type \in LossNormTypes) =>
    /\ fw.pc = "returned"
    /\ Val(fw.ret).loss = ExpectedLoss

\* ==================================================================
\* Properties of convert_norm_to_float
\* ==================================================================
\* C21: convert_norm_to_float(net) ends, for a net with or without child
\* modules, by returning net, having visited every module of the tree and
\* converted every batch-norm module to float.
C21_ConvertVisitsTreeAndReturns ==
  cnv.pc \in {"returned", "raised"} =>
    /\ cnv.pc = "returned"
    /\ cnv.ret = Some(1)
    /\ cnv.visited = DOMAIN cnv.parent
    /\ \A m \in DOMAIN cnv.parent : cnv.is_bn[m] => cnv.is_float[m]

====
